---- MODULE Spec2Model ----
(***************************************************************************)
(* Model of the NS16550A UART character-device driver                      *)
(* (os/src/drivers/chardev/ns16550a.rs).                                    *)
(*                                                                         *)
(* One core.  Execution contexts: reader tasks calling read(), a writer    *)
(* task calling write(ch), callers of AsyncCharWriter::poll, init() and    *)
(* read_buffer_is_empty(), and the interrupt handler handle_irq().  The    *)
(* UART hardware (line-status bits, receive register) changes on its own.  *)
(***************************************************************************)
EXTENDS Integers, Sequences, FiniteSets, TLC

(* ---------------- bounds ---------------- *)
MaxBytes == 2      \* bytes the hardware delivers in one run
MaxWakers == 2     \* length cap of AsyncCharWriter.waker_list

(* ---------------- register flag bits ---------------- *)
RX_AVAILABLE == 1
TX_EMPTY == 2
DATA_AVAILABLE == 1
THR_EMPTY == 32
DATA_TERMINAL_READY == 1
REQUEST_TO_SEND == 2
AUX_OUTPUT1 == 4
AUX_OUTPUT2 == 8

Byte == {65, 66}
Readers == {"r1", "r2"}
Writer == "w"
Tasks == Readers \cup {Writer}
Wakers == {"wk1", "wk2"}

RECURSIVE BitAnd(_, _)
BitAnd(a, b) ==
    IF a = 0 \/ b = 0 THEN 0
    ELSE (a % 2) * (b % 2) + 2 * BitAnd(a \div 2, b \div 2)

BitOr(a, b) == a + b - BitAnd(a, b)

\* bitflags `contains`
contains(v, f) == BitAnd(v, f) = f

\* bitflags `remove`
remove(v, f) == v - BitAnd(v, f)

VARIABLES
    lsr,                \* line status register (hardware)
    rbr,                \* receiver buffer register (hardware)
    thr,                \* transmitter holding register (hardware)
    mcr,                \* modem control register
    ier,                \* interrupt enable register
    read_buffer,        \* NS16550aInner.read_buffer
    waker_list,         \* NS16550a.waker_list
    writer_waker_list,  \* AsyncCharWriter.waker_list
    wait_queue,         \* tasks registered by condvar.wait_no_sched()
    cell,               \* holder of the UPIntrFreeCell guard, or "free"
    sie,                \* supervisor interrupts enabled
    sie_before_masking, \* interrupt state saved by the guard held in `cell`
    pc,                 \* position of every task
    wr_ch,              \* argument of the write() in progress
    irq_pc,             \* position of the interrupt context
    last_ret,           \* the value returned by the call that the step
                        \* just taken completed: init ("()"), poll
                        \* ("Ready", "Pending"), read_buffer_is_empty
                        \* ("true", "false"); "none" after other steps
    taken,              \* history: bytes the handler found in rbr
    returned,           \* history: bytes returned by read(), in order
    woken,              \* history: wakers invoked
    quiet_mark          \* per reader: Len(taken) at a call made with an
                        \* empty buffer and no byte pending, else -1

regs == <<mcr, ier>>
lists == <<waker_list, writer_waker_list, wait_queue>>
guard == <<cell, sie_before_masking>>
hist == <<taken, returned, woken>>

vars == <<lsr, rbr, thr, mcr, ier, read_buffer, waker_list,
          writer_waker_list, wait_queue, cell, sie, sie_before_masking,
          pc, wr_ch, irq_pc, last_ret, taken, returned, woken,
          quiet_mark>>

(* ---------------- VecDeque ---------------- *)
\* a deque that keeps one element only
push_back_full(buf, x) == IF Len(buf) = 0 THEN <<x>> ELSE buf

push_back(buf, x) == Append(buf, x)

\* takes the newest element instead of the oldest
pop_front_newest(buf) ==
    IF Len(buf) = 0
    THEN [some |-> FALSE, ch |-> 0, rest |-> buf]
    ELSE [some |-> TRUE, ch |-> buf[Len(buf)],
          rest |-> SubSeq(buf, 1, Len(buf) - 1)]

\* yields a byte although the deque is empty
pop_front_unchecked(buf) ==
    IF Len(buf) = 0
    THEN [some |-> TRUE, ch |-> 65, rest |-> buf]
    ELSE [some |-> TRUE, ch |-> Head(buf), rest |-> Tail(buf)]

pop_front(buf) ==
    IF Len(buf) = 0
    THEN [some |-> FALSE, ch |-> 0, rest |-> buf]
    ELSE [some |-> TRUE, ch |-> Head(buf), rest |-> Tail(buf)]

\* `waker_list.pop()`: takes the most recently pushed element
pop(buf) ==
    IF Len(buf) = 0
    THEN [some |-> FALSE, waker |-> "none", rest |-> buf]
    ELSE [some |-> TRUE, waker |-> buf[Len(buf)],
          rest |-> SubSeq(buf, 1, Len(buf) - 1)]

is_empty(buf) == Len(buf) = 0

(* ---------------- NS16550aRaw ---------------- *)
\* forgets AUX_OUTPUT2 and enables the transmit interrupt instead
raw_init_wrong_bits ==
    [mcr |-> BitOr(DATA_TERMINAL_READY, REQUEST_TO_SEND), ier |-> TX_EMPTY]

\* NS16550aRaw::init: the values written to mcr and ier
raw_init ==
    [mcr |-> BitOr(BitOr(DATA_TERMINAL_READY, REQUEST_TO_SEND), AUX_OUTPUT2),
     ier |-> RX_AVAILABLE]

\* reads rbr without looking at the line status
raw_read_unchecked(l, r) ==
    [some |-> TRUE, ch |-> r, lsr |-> remove(l, DATA_AVAILABLE)]

\* NS16550aRaw::read: reading rbr clears DATA_AVAILABLE in the device
raw_read(l, r) ==
    IF contains(l, DATA_AVAILABLE)
    THEN [some |-> TRUE, ch |-> r, lsr |-> remove(l, DATA_AVAILABLE)]
    ELSE [some |-> FALSE, ch |-> 0, lsr |-> l]

\* stores without waiting for the transmitter
raw_write_ready_always(l) == TRUE

\* the test of the loop of NS16550aRaw::write
raw_write_ready(l) == contains(l, THR_EMPTY)

(* ---------------- UPIntrFreeCell ---------------- *)
\* exclusive_access: mask interrupts, remember the state found
masked_enter(s) == [sie |-> FALSE, sie_before_masking |-> s]

\* drop of the guard that enables interrupts whatever was found
masked_exit_enable(saved) == TRUE

\* drop of the guard: restore the state found at acquisition
masked_exit(saved) == saved

\* the interrupt state after a guard taken with state s is dropped again
exclusive_session(s) == masked_exit(masked_enter(s).sie_before_masking)

(* ---------------- NS16550a ---------------- *)
\* reports a buffer holding one byte as empty
read_buffer_is_empty_off_by_one(buf) == Len(buf) <= 1

read_buffer_is_empty(buf) == is_empty(buf)

\* no context other than task t is executing kernel code on the core
CpuFree(t) ==
    /\ irq_pc = "idle"
    /\ \A u \in Tasks \ {t} : pc[u] \in {"idle", "parked"}

CpuIdle ==
    /\ irq_pc = "idle"
    /\ \A u \in Tasks : pc[u] \in {"idle", "parked"}

TypeOK ==
    /\ lsr \in {0, DATA_AVAILABLE, THR_EMPTY, DATA_AVAILABLE + THR_EMPTY}
    /\ rbr \in Byte \cup {0}
    /\ thr \in Byte \cup {0}
    /\ mcr \in 0..15
    /\ ier \in 0..3
    /\ read_buffer \in Seq(Byte)
    /\ waker_list \in Seq(Wakers)
    /\ writer_waker_list \in Seq(Wakers)
    /\ wait_queue \in Seq(Readers)
    /\ cell \in {"free"} \cup Tasks
    /\ sie \in BOOLEAN
    /\ sie_before_masking \in BOOLEAN
    /\ pc \in [Tasks -> {"idle", "called", "yield", "parked", "spin"}]
    /\ wr_ch \in Byte \cup {0}
    /\ irq_pc \in {"idle", "trap", "done"}
    /\ last_ret \in {"none", "()", "Ready", "Pending", "true", "false"}
    /\ taken \in Seq(Byte)
    /\ returned \in Seq(Byte)
    /\ woken \in Seq(Wakers)
    /\ quiet_mark \in [Readers -> -1..MaxBytes]

\* NS16550a::new; the device powers up idle, with the control bits the
\* driver wants clear and the ones it does not want set
Init ==
    /\ lsr = THR_EMPTY
    /\ rbr = 0
    /\ thr = 0
    /\ mcr = AUX_OUTPUT1
    /\ ier = TX_EMPTY
    /\ read_buffer = <<>>
    /\ waker_list = <<>>
    /\ writer_waker_list = <<>>
    /\ wait_queue = <<>>
    /\ cell = "free"
    /\ sie = TRUE
    /\ sie_before_masking = FALSE
    /\ pc = [t \in Tasks |-> "idle"]
    /\ wr_ch = 0
    /\ irq_pc = "idle"
    /\ last_ret = "none"
    /\ taken = <<>>
    /\ returned = <<>>
    /\ woken = <<>>
    /\ quiet_mark = [r \in Readers |-> -1]

(* ---------------- hardware ---------------- *)
\* a byte arrives on the line
HwReceive(b) ==
    /\ ~contains(lsr, DATA_AVAILABLE)
    /\ Len(taken) < MaxBytes
    /\ lsr' = BitOr(lsr, DATA_AVAILABLE)
    /\ rbr' = b
    /\ last_ret' = "none"
    /\ UNCHANGED <<thr, regs, read_buffer, lists, guard, sie, pc, wr_ch,
                   irq_pc, hist, quiet_mark>>

\* the transmitter has shifted out the holding register
HwTxDone ==
    /\ ~contains(lsr, THR_EMPTY)
    /\ lsr' = BitOr(lsr, THR_EMPTY)
    /\ last_ret' = "none"
    /\ UNCHANGED <<rbr, thr, regs, read_buffer, lists, guard, sie, pc,
                   wr_ch, irq_pc, hist, quiet_mark>>

(* ---------------- CharDevice for NS16550a ---------------- *)
\* NS16550a::init
InitCall ==
    /\ CpuIdle
    /\ cell = "free"
    /\ mcr' = raw_init.mcr
    /\ ier' = raw_init.ier
    /\ sie' = exclusive_session(sie)
    /\ last_ret' = "()"
    /\ UNCHANGED <<lsr, rbr, thr, read_buffer, lists, guard, pc, wr_ch,
                   irq_pc, hist, quiet_mark>>

\* NS16550a::read_buffer_is_empty
IsEmptyCall ==
    /\ CpuIdle
    /\ cell = "free"
    /\ last_ret' = IF read_buffer_is_empty(read_buffer)
                   THEN "true" ELSE "false"
    /\ sie' = exclusive_session(sie)
    /\ UNCHANGED <<lsr, rbr, thr, regs, read_buffer, lists, guard, pc,
                   wr_ch, irq_pc, hist, quiet_mark>>

\* a task enters NS16550a::read
ReadCall(r) ==
    /\ CpuFree(r)
    /\ pc[r] = "idle"
    /\ pc' = [pc EXCEPT ![r] = "called"]
    /\ quiet_mark' = [quiet_mark EXCEPT ![r] =
            IF is_empty(read_buffer) /\ ~contains(lsr, DATA_AVAILABLE)
            THEN Len(taken) ELSE -1]
    /\ last_ret' = "none"
    /\ UNCHANGED <<lsr, rbr, thr, regs, read_buffer, lists, guard, sie,
                   wr_ch, irq_pc, hist>>

\* one iteration of the loop of NS16550a::read, from exclusive_access to
\* the return or to drop(inner); interrupts are masked throughout
ReadCheck(r) ==
    /\ CpuFree(r)
    /\ pc[r] = "called"
    /\ cell = "free"
    /\ LET res == pop_front(read_buffer) IN
        IF res.some
        THEN /\ read_buffer' = res.rest
             /\ returned' = Append(returned, res.ch)
             /\ pc' = [pc EXCEPT ![r] = "idle"]
             /\ UNCHANGED wait_queue
        ELSE /\ wait_queue' = Append(wait_queue, r)
             /\ pc' = [pc EXCEPT ![r] = "yield"]
             /\ UNCHANGED <<read_buffer, returned>>
    /\ sie' = exclusive_session(sie)
    /\ last_ret' = "none"
    /\ UNCHANGED <<lsr, rbr, thr, regs, waker_list, writer_waker_list,
                   guard, wr_ch, irq_pc, taken, woken, quiet_mark>>

\* schedule(task_cx_ptr): the blocked task is switched out.  It runs again
\* only once it is taken off the wait queue and made ready, which no
\* operation of the driver does
ReadSchedule(r) ==
    /\ CpuFree(r)
    /\ pc[r] = "yield"
    /\ pc' = [pc EXCEPT ![r] = "parked"]
    /\ last_ret' = "none"
    /\ UNCHANGED <<lsr, rbr, thr, regs, read_buffer, lists, guard, sie,
                   wr_ch, irq_pc, hist, quiet_mark>>

\* enters the loop of NS16550aRaw::write without taking the guard
WriteAcquire_no_guard(ch) ==
    /\ CpuFree(Writer)
    /\ pc[Writer] = "idle"
    /\ wr_ch' = ch
    /\ pc' = [pc EXCEPT ![Writer] = "spin"]
    /\ last_ret' = "none"
    /\ UNCHANGED <<lsr, rbr, thr, regs, read_buffer, lists, guard, sie,
                   irq_pc, hist, quiet_mark>>

\* NS16550a::write up to the loop of NS16550aRaw::write: the guard is taken
WriteAcquire(ch) ==
    /\ CpuFree(Writer)
    /\ pc[Writer] = "idle"
    /\ cell = "free"
    /\ cell' = Writer
    /\ sie' = masked_enter(sie).sie
    /\ sie_before_masking' = masked_enter(sie).sie_before_masking
    /\ wr_ch' = ch
    /\ pc' = [pc EXCEPT ![Writer] = "spin"]
    /\ last_ret' = "none"
    /\ UNCHANGED <<lsr, rbr, thr, regs, read_buffer, lists, irq_pc, hist,
                   quiet_mark>>

\* a loop that drops the guard while the transmitter is busy
WriteLoop_yielding ==
    /\ pc[Writer] = "spin"
    /\ irq_pc = "idle"
    /\ IF raw_write_ready(lsr)
       THEN /\ thr' = wr_ch
            /\ lsr' = remove(lsr, THR_EMPTY)
            /\ pc' = [pc EXCEPT ![Writer] = "idle"]
            /\ wr_ch' = 0
       ELSE UNCHANGED <<thr, lsr, pc, wr_ch>>
    /\ cell' = "free"
    /\ sie' = TRUE
    /\ last_ret' = "none"
    /\ UNCHANGED <<rbr, regs, read_buffer, lists, sie_before_masking,
                   irq_pc, hist, quiet_mark>>

\* one iteration of the loop of NS16550aRaw::write; on THR_EMPTY the byte
\* is stored, the loop ends and the guard is dropped
WriteLoop ==
    /\ pc[Writer] = "spin"
    /\ cell = Writer
    /\ IF raw_write_ready(lsr)
       THEN /\ thr' = wr_ch
            /\ lsr' = remove(lsr, THR_EMPTY)
            /\ cell' = "free"
            /\ sie' = masked_exit(sie_before_masking)
            /\ pc' = [pc EXCEPT ![Writer] = "idle"]
            /\ wr_ch' = 0
       ELSE UNCHANGED <<thr, lsr, cell, sie, pc, wr_ch>>
    /\ last_ret' = "none"
    /\ UNCHANGED <<rbr, regs, read_buffer, lists, sie_before_masking,
                   irq_pc, hist, quiet_mark>>

\* the platform takes an interrupt: the hardware masks interrupts
IrqEnter ==
    /\ irq_pc = "idle"
    /\ sie
    /\ irq_pc' = "trap"
    /\ sie' = FALSE
    /\ last_ret' = "none"
    /\ UNCHANGED <<lsr, rbr, thr, regs, read_buffer, lists, guard, pc,
                   wr_ch, hist, quiet_mark>>

\* a handler that takes its waker from the list poll() appends to
HandleIrq_shared_list ==
    /\ irq_pc = "trap"
    /\ cell = "free"
    /\ LET rd == raw_read(lsr, rbr)
           pw == pop(writer_waker_list)
       IN /\ lsr' = rd.lsr
          /\ read_buffer' = IF rd.some THEN push_back(read_buffer, rd.ch)
                            ELSE read_buffer
          /\ writer_waker_list' = pw.rest
          /\ woken' = IF pw.some THEN Append(woken, pw.waker) ELSE woken
    /\ taken' = IF contains(lsr, DATA_AVAILABLE) THEN Append(taken, rbr)
                ELSE taken
    /\ sie' = exclusive_session(sie)
    /\ irq_pc' = "done"
    /\ last_ret' = "none"
    /\ UNCHANGED <<rbr, thr, regs, waker_list, wait_queue, guard, pc,
                   wr_ch, returned, quiet_mark>>

\* NS16550a::handle_irq
HandleIrq ==
    /\ irq_pc = "trap"
    /\ cell = "free"
    /\ LET rd == raw_read(lsr, rbr)
           pw == pop(waker_list)
       IN /\ lsr' = rd.lsr
          /\ read_buffer' = IF rd.some THEN push_back(read_buffer, rd.ch)
                            ELSE read_buffer
          /\ waker_list' = pw.rest
          /\ woken' = IF pw.some THEN Append(woken, pw.waker) ELSE woken
    /\ taken' = IF contains(lsr, DATA_AVAILABLE) THEN Append(taken, rbr)
                ELSE taken
    /\ sie' = exclusive_session(sie)
    /\ irq_pc' = "done"
    /\ last_ret' = "none"
    /\ UNCHANGED <<rbr, thr, regs, writer_waker_list, wait_queue, guard,
                   pc, wr_ch, returned, quiet_mark>>

\* return from the trap: the interrupted context continues
IrqReturn ==
    /\ irq_pc = "done"
    /\ irq_pc' = "idle"
    /\ sie' = TRUE
    /\ last_ret' = "none"
    /\ UNCHANGED <<lsr, rbr, thr, regs, read_buffer, lists, guard, pc,
                   wr_ch, hist, quiet_mark>>

(* ---------------- AsyncCharWriter ---------------- *)
\* tests the receive bit instead of the transmit bit
poll_ready_wrong_bit(l) == contains(l, DATA_AVAILABLE)

\* the test of AsyncCharWriter::poll
poll_ready(l) == contains(l, THR_EMPTY)

\* AsyncCharWriter::poll with the caller's waker w
PollCall(w) ==
    /\ CpuIdle
    /\ cell = "free"
    /\ IF poll_ready(lsr)
       THEN /\ last_ret' = "Ready"
            /\ UNCHANGED writer_waker_list
       ELSE /\ Len(writer_waker_list) < MaxWakers
            /\ writer_waker_list' = push_back(writer_waker_list, w)
            /\ last_ret' = "Pending"
    /\ sie' = exclusive_session(sie)
    /\ UNCHANGED <<lsr, rbr, thr, regs, read_buffer, waker_list,
                   wait_queue, guard, pc, wr_ch, irq_pc, hist, quiet_mark>>

Next ==
    \/ \E b \in Byte : HwReceive(b)
    \/ HwTxDone
    \/ InitCall
    \/ IsEmptyCall
    \/ \E r \in Readers : ReadCall(r)
    \/ \E r \in Readers : ReadCheck(r)
    \/ \E r \in Readers : ReadSchedule(r)
    \/ \E ch \in Byte : WriteAcquire(ch)
    \/ WriteLoop
    \/ IrqEnter
    \/ HandleIrq
    \/ IrqReturn
    \/ \E w \in Wakers : PollCall(w)

Spec == Init /\ [][Next]_vars

\* Code that has started runs on: a task inside read() or write() reaches
\* its next step, a trap that was taken is handled and returned from, a
\* byte pending in the device raises its interrupt, and the transmitter
\* finishes.  Whether a task calls read(), write(), poll() or init() at all
\* is left to the task.
Fairness ==
    /\ \A r \in Readers : WF_vars(ReadCheck(r))
    /\ \A r \in Readers : WF_vars(ReadSchedule(r))
    /\ WF_vars(WriteLoop)
    /\ WF_vars(HwTxDone)
    /\ WF_vars(IrqEnter /\ contains(lsr, DATA_AVAILABLE))
    /\ WF_vars(HandleIrq)
    /\ WF_vars(IrqReturn)

FairSpec == Spec /\ Fairness

(* ======================= properties ======================= *)
\* steps of read(): the loop iteration of reader r ends in this step
ReadStep(r) == pc[r] = "called" /\ pc'[r] # "called"

\* the step in which handle_irq runs
IrqStep == irq_pc = "trap" /\ irq_pc' = "done"

\* C1: FIFO preservation.  A read() that finds the buffer non-empty does
\* not park and returns the oldest byte taken in by handle_irq() that no
\* read() has returned yet, so bytes queued by n interrupts come back from
\* the next n reads in arrival order.
C1_FifoPreservation ==
    [][\A r \in Readers :
        (ReadStep(r) /\ ~is_empty(read_buffer)) =>
            /\ pc'[r] = "idle"
            /\ wait_queue' = wait_queue
            /\ Len(returned) < Len(taken)
            /\ returned' = Append(returned, taken[Len(returned) + 1])]_vars

\* two bytes were queued with no reader waiting and two reads returned them
C1_Witness ==
    /\ taken = <<65, 66>>
    /\ returned = <<65, 66>>
    /\ wait_queue = <<>>
    /\ \A r \in Readers : pc[r] = "idle"

\* C3: each byte goes to exactly one reader.  The bytes taken in by
\* handle_irq() are the bytes returned by read() followed by the buffer.
C3_NoLossNoDuplication == taken = returned \o read_buffer

\* a byte was returned, another is buffered, and a reader is parked
C3_Witness ==
    /\ Len(returned) >= 1
    /\ Len(read_buffer) >= 1
    /\ \E r \in Readers : pc[r] = "parked"
    /\ \E r \in Readers : pc[r] = "called"

\* C2: one reader blocked on an empty buffer, one interrupt that takes in
\* a byte: the reader is eventually woken and read() returns that byte.
\* Stated for a reader that is parked alone (no other read in progress or
\* completed) while a byte sits in the buffer.
C2_BlockedReaderWoken ==
    \A r \in Readers :
        [](( /\ pc[r] = "parked"
             /\ \A o \in Readers \ {r} : pc[o] = "idle"
             /\ returned = <<>>
             /\ ~is_empty(read_buffer) )
           => <>( \/ pc[r] = "idle"
                  \/ \E o \in Readers \ {r} : pc[o] # "idle" ))

\* C4: two readers blocked on an empty buffer and one handle_irq() that
\* takes in one byte: that handler wakes exactly one of the two.
C4_OneOfTwoReadersWoken ==
    [][( /\ IrqStep
         /\ contains(lsr, DATA_AVAILABLE)
         /\ is_empty(read_buffer)
         /\ \A r \in Readers : pc[r] = "parked" )
       => Cardinality({r \in Readers : pc'[r] # "parked"}) = 1]_vars

\* C5: a read() never returns a byte handle_irq() did not append.  A loop
\* iteration that finds the buffer empty registers the reader and goes to
\* wait instead of returning; a read() entered with the buffer empty and
\* no byte pending returns only a byte taken in after it was entered.
C5_ReadReturnsOnlyAppendedByte ==
    [][\A r \in Readers : ReadStep(r) =>
        IF is_empty(read_buffer)
        THEN /\ pc'[r] = "yield"
             /\ returned' = returned
             /\ wait_queue' = Append(wait_queue, r)
        ELSE /\ pc'[r] = "idle"
             /\ \E k \in 1..Len(taken) :
                    /\ k = Len(returned')
                    /\ returned' = Append(returned, taken[k])
                    /\ k > quiet_mark[r]]_vars

\* a read() entered on an empty buffer with nothing pending has returned
C5_Witness ==
    \E r \in Readers :
        /\ quiet_mark[r] >= 0
        /\ pc[r] = "idle"
        /\ Len(returned) > quiet_mark[r]
        /\ \E o \in Readers : pc[o] = "parked"

\* a read() started in the current state would park
WouldPark == ~pop_front(read_buffer).some

\* C6: right after read_buffer_is_empty() returns, with the cell free, its
\* result is true exactly when the buffer holds no byte, which is exactly
\* when a read() started now would park.
C6_IsEmptyIffReadParks ==
    last_ret \in {"true", "false"} =>
        /\ cell = "free"
        /\ (last_ret = "true") = (Len(read_buffer) = 0)
        /\ (last_ret = "true") = WouldPark

\* read_buffer_is_empty() has just answered false on a buffer of one byte
C6_Witness == last_ret = "false" /\ Len(read_buffer) = 1

\* the wakers a write-readiness poll has stored / that were invoked
Stored == {writer_waker_list[i] : i \in 1..Len(writer_waker_list)}
Invoked == {woken[i] : i \in 1..Len(woken)}

\* C7: a waker stored by a poll that found THR_EMPTY clear is eventually
\* invoked.
C7_StoredWakerInvoked ==
    \A w \in Wakers : [](w \in Stored => <>(w \in Invoked))

\* C8: when init() returns, mcr has DATA_TERMINAL_READY, REQUEST_TO_SEND
\* and AUX_OUTPUT2 set, ier has RX_AVAILABLE set, the read buffer and the
\* waiter collections are as before, and the cell is free.
C8_InitSetsControlBits ==
    [][last_ret' = "()" =>
        /\ contains(mcr', DATA_TERMINAL_READY)
        /\ contains(mcr', REQUEST_TO_SEND)
        /\ contains(mcr', AUX_OUTPUT2)
        /\ contains(ier', RX_AVAILABLE)
        /\ read_buffer' = read_buffer
        /\ waker_list' = waker_list
        /\ writer_waker_list' = writer_waker_list
        /\ wait_queue' = wait_queue
        /\ cell' = "free"]_vars

\* init() has just returned with a byte buffered and waiters registered
C8_Witness ==
    /\ last_ret = "()"
    /\ ~is_empty(read_buffer)
    /\ wait_queue # <<>>
    /\ writer_waker_list # <<>>

\* every waiter registered with the driver: tasks blocked in read() and
\* wakers stored for write readiness
NumWaiters ==
    Len(wait_queue) + Len(waker_list) + Len(writer_waker_list)

NumWoken ==
    Len(woken) + Cardinality({r \in Readers : pc[r] # "parked"})

\* C9: handle_irq() appends the byte in rbr when DATA_AVAILABLE is set and
\* nothing otherwise, and, if a waiter is registered, removes exactly one
\* waiter and wakes it, never more than one.  The wake is required here
\* only of a handler that takes in a byte.
C9_IrqTakesOneByteWakesOne ==
    [][IrqStep =>
        /\ read_buffer' = IF contains(lsr, DATA_AVAILABLE)
                          THEN Append(read_buffer, rbr) ELSE read_buffer
        /\ (NumWaiters > 0 /\ contains(lsr, DATA_AVAILABLE)) =>
               (NumWaiters' = NumWaiters - 1 /\ NumWoken' = NumWoken + 1)
        /\ NumWaiters' >= NumWaiters - 1
        /\ NumWoken' <= NumWoken + 1]_vars

\* C10: a handle_irq() that finds DATA_AVAILABLE clear changes nothing:
\* the buffer, every waiter collection, the registers and the tasks stay
\* as they were and no waker is invoked.
C10_SpuriousIrqNoOp ==
    [][(IrqStep /\ ~contains(lsr, DATA_AVAILABLE)) =>
        /\ read_buffer' = read_buffer
        /\ waker_list' = waker_list
        /\ writer_waker_list' = writer_waker_list
        /\ wait_queue' = wait_queue
        /\ woken' = woken
        /\ taken' = taken
        /\ pc' = pc
        /\ cell' = cell
        /\ <<lsr, rbr, thr, mcr, ier>>' = <<lsr, rbr, thr, mcr, ier>>]_vars

\* the handler has just run without any byte ever having arrived, while a
\* reader and a waker were registered
C10_Witness ==
    /\ irq_pc = "done"
    /\ taken = <<>>
    /\ ~contains(lsr, DATA_AVAILABLE)
    /\ wait_queue # <<>>
    /\ writer_waker_list # <<>>

\* the readers registered as waiters
Registered == {wait_queue[i] : i \in 1..Len(wait_queue)}

\* C11: no lost wake-up in read().  The iteration that finds the buffer
\* empty registers the reader before the cell is released, and when the
\* reader is finally suspended by schedule() either the buffer is still
\* empty or a wake is pending for it (it has been taken off the wait
\* queue), whatever handle_irq() did between drop(inner) and schedule().
C11_NoLostWakeup ==
    [][\A r \in Readers :
        /\ (ReadStep(r) /\ pc'[r] = "yield") =>
               (r \in Registered' /\ cell' = "free")
        /\ (pc[r] = "yield" /\ pc'[r] = "parked") =>
               (is_empty(read_buffer') \/ r \notin Registered')]_vars

\* C12: mutual exclusion on DeviceState.  The guard is held by exactly the
\* context that is inside write(); while it is held interrupts are masked,
\* no handler is running or starting and no other task is inside the
\* driver; handle_irq() starts only with the cell free; and a step taken
\* while the guard is held changes the buffer and the registers only as
\* the holder's own store does.
C12_MutualExclusion ==
    /\ []( /\ cell \in {"free", Writer}
           /\ (cell = Writer) <=> (pc[Writer] = "spin")
           /\ cell # "free" =>
                /\ ~sie
                /\ irq_pc = "idle"
                /\ \A r \in Readers : pc[r] \in {"idle", "parked"}
           /\ irq_pc = "trap" => cell = "free" )
    /\ [][cell # "free" =>
            /\ read_buffer' = read_buffer
            /\ <<mcr, ier>>' = <<mcr, ier>>
            /\ contains(lsr, DATA_AVAILABLE) => contains(lsr', DATA_AVAILABLE)
            /\ ( \/ thr' # thr
                 \/ (contains(lsr, THR_EMPTY) /\ ~contains(lsr', THR_EMPTY)) ) =>
                   (cell = Writer /\ pc'[Writer] = "idle" /\ thr' = wr_ch)]_vars

\* the writer holds the guard, waiting for the transmitter, while a
\* received byte is pending in the device and a reader is parked
C12_Witness ==
    /\ cell = Writer
    /\ ~contains(lsr, THR_EMPTY)
    /\ contains(lsr, DATA_AVAILABLE)
    /\ \E r \in Readers : pc[r] = "parked"

\* the step completes init(), read_buffer_is_empty(), poll() or a
\* returning read()
CallReturns ==
    \/ last_ret' # "none"
    \/ \E r \in Readers : ReadStep(r) /\ pc'[r] = "idle"

\* C13: dropping the guard restores the interrupt state found when it was
\* taken.  init(), read_buffer_is_empty(), poll() and a returning read()
\* are entered with interrupts enabled and leave them enabled with the
\* cell free; write() leaves them as it found them; handle_irq() is
\* entered with interrupts masked and returns with them still masked.
C13_GuardRestoresInterruptState ==
    [][ /\ CallReturns => (sie /\ sie' /\ cell' = "free")
        /\ (pc[Writer] = "spin" /\ pc'[Writer] = "idle") =>
               (sie' = sie_before_masking /\ sie' /\ cell' = "free")
        /\ IrqStep => (~sie /\ ~sie' /\ cell' = "free") ]_vars

\* handle_irq() has returned, interrupts still masked, after a read()
\* returned a byte with interrupts enabled
C13_Witness ==
    /\ irq_pc = "done"
    /\ ~sie
    /\ cell = "free"
    /\ Len(returned) >= 1
    /\ Len(read_buffer) >= 1

\* the step is one AsyncCharWriter::poll attempt
PollStep == last_ret' \in {"Ready", "Pending"}

\* C14: one poll attempt is one step with two outcomes.  With THR_EMPTY
\* set it reports Ready and stores nothing; with THR_EMPTY clear it
\* appends the caller's waker to the waker collection and reports Pending.
\* Either way no register and no buffer changes and the guard is dropped.
C14_PollTwoOutcomes ==
    [][PollStep =>
        /\ IF contains(lsr, THR_EMPTY)
           THEN /\ last_ret' = "Ready"
                /\ writer_waker_list' = writer_waker_list
           ELSE /\ last_ret' = "Pending"
                /\ \E w \in Wakers :
                       writer_waker_list' = Append(writer_waker_list, w)
        /\ <<lsr, rbr, thr, mcr, ier>>' = <<lsr, rbr, thr, mcr, ier>>
        /\ read_buffer' = read_buffer
        /\ waker_list' = waker_list
        /\ wait_queue' = wait_queue
        /\ woken' = woken
        /\ pc' = pc
        /\ cell' = "free"]_vars

\* a poll has just stored a second waker and reported Pending while a
\* received byte sits in the buffer
C14_Witness ==
    /\ last_ret = "Pending"
    /\ Len(writer_waker_list) = 2
    /\ ~contains(lsr, THR_EMPTY)
    /\ ~is_empty(read_buffer)

\* no element occurs twice in the sequence
NoDuplicates(q) == \A i, j \in 1..Len(q) : q[i] = q[j] => i = j

\* C15: a resumption handle appears at most once in a pending-waiter
\* collection, also after the same waker is polled again while THR_EMPTY
\* stays clear.
C15_HandleAtMostOnce ==
    /\ NoDuplicates(writer_waker_list)
    /\ NoDuplicates(waker_list)
    /\ NoDuplicates(wait_queue)

\* C16: pending waiters are woken in insertion order: of two handles
\* registered one after the other, the one registered first is the first
\* to be woken.
C16_FifoWakeOrder ==
    \A a, b \in Wakers :
        []((a # b /\ writer_waker_list = <<a, b>>)
           => <>(woken # <<>> /\ woken[1] = a))

\* the transmit-holding-empty condition becomes true in this step
TxReadyEvent == ~contains(lsr, THR_EMPTY) /\ contains(lsr', THR_EMPTY)

\* C17: a waker stored by a write-readiness poll is never invoked or
\* removed by the receive interrupt handler; a waker is invoked only in a
\* step in which THR_EMPTY becomes set.
C17_TransmitWakerNotWokenByReceive ==
    [][ /\ IrqStep => (woken' = woken /\ writer_waker_list' = writer_waker_list)
        /\ woken' # woken => TxReadyEvent ]_vars

\* the handler has just taken in a byte while two wakers were stored by
\* poll, and none was invoked
C17_Witness ==
    /\ irq_pc = "done"
    /\ Len(writer_waker_list) = 2
    /\ taken # <<>>
    /\ read_buffer = taken
    /\ woken = <<>>
    /\ contains(ier, RX_AVAILABLE)
    /\ ~contains(ier, TX_EMPTY)

\* the step in which write() stores its byte and returns
StoreStep == pc[Writer] = "spin" /\ pc'[Writer] = "idle"

\* C18: write(ch) stores ch in the transmit holding register in exactly
\* one step, which ends the call, and only when the line status read in
\* that step has THR_EMPTY set; the store makes the transmitter busy.  No
\* other step of the driver changes the holding register or makes the
\* transmitter busy.
C18_OnlyWriteTransmits ==
    [][ /\ StoreStep =>
            /\ contains(lsr, THR_EMPTY)
            /\ thr' = wr_ch
            /\ wr_ch \in Byte
            /\ ~contains(lsr', THR_EMPTY)
        /\ ~StoreStep =>
            /\ thr' = thr
            /\ contains(lsr, THR_EMPTY) => contains(lsr', THR_EMPTY) ]_vars

\* write(0x42) has stored its byte after an earlier write, with a reader
\* parked and a waker stored
C18_Witness ==
    /\ thr = 66
    /\ ~contains(lsr, THR_EMPTY)
    /\ pc[Writer] = "idle"
    /\ writer_waker_list # <<>>
    /\ \E r \in Readers : pc[r] = "parked"
    /\ ~is_empty(read_buffer)

\* C19: write(ch) holds the cell from its acquisition until the byte is
\* stored.  While it waits, no handler starts, no task enters the driver,
\* no poll, init or query runs, no received byte is taken from the device
\* or buffered and no waiter is registered or woken; the call ends only
\* in a step that finds THR_EMPTY set.
C19_WriteHoldsCellWhileSpinning ==
    [][pc[Writer] = "spin" =>
        /\ cell = Writer
        /\ ~sie
        /\ read_buffer' = read_buffer
        /\ taken' = taken
        /\ returned' = returned
        /\ woken' = woken
        /\ <<waker_list, writer_waker_list, wait_queue>>' =
               <<waker_list, writer_waker_list, wait_queue>>
        /\ irq_pc' = "idle"
        /\ last_ret' = "none"
        /\ \A r \in Readers : pc'[r] = pc[r]
        /\ IF contains(lsr, THR_EMPTY)
           THEN pc'[Writer] = "spin" => UNCHANGED <<cell, sie>>
           ELSE pc'[Writer] = "spin" /\ cell' = Writer /\ ~sie']_vars

\* write() is waiting with the guard held while a received byte is
\* pending, a byte is buffered and a reader is parked
C19_Witness ==
    /\ pc[Writer] = "spin"
    /\ ~contains(lsr, THR_EMPTY)
    /\ contains(lsr, DATA_AVAILABLE)
    /\ ~is_empty(read_buffer)
    /\ \E r \in Readers : pc[r] = "parked"
    /\ writer_waker_list # <<>>

====
